---- MODULE Spec2Model ----
(***************************************************************************)
(* A model of the jsonrpc2 package of naive-rpc: the wire codec (Request,  *)
(* Response, Error), the method invoker (unmarshalParam, call,             *)
(* serveRequest), the server dispatcher (ServeRPC with its at-most-once    *)
(* option) and the HTTP server transport (ServeHTTP, writeJsonResponse).   *)
(*                                                                         *)
(* A Go pointer or slice that may be nil is a sequence of length 0 (nil)   *)
(* or 1 (the value): None and Some(v).  A json.RawMessage is the string of *)
(* its bytes.                                                              *)
(***************************************************************************)
EXTENDS Integers, Sequences, FiniteSets, TLC

\* ------------------------------------------------------------------ bounds
\* handlers (goroutines) that serve requests concurrently
MaxProcs == 2
\* requests handed to the server in one behaviour
MaxCalls == 2
\* the largest request id a caller uses
MaxId == 2
\* Register calls made in one behaviour
MaxRegs == 3
\* ServeRPC calls made while methods are being registered
MaxLookups == 1

Procs == 1..MaxProcs

None == <<>>
Some(v) == <<v>>

\* ------------------------------------------------------------ wire codec
JsonRpc2 == "2.0"

\* Error{Code, Message, Data}; Data is nil until withReason fills it.
ErrParseErrorWrongCode == [Code |-> -32600, Message |-> "Parse error", Data |-> None]
ErrParseError == [Code |-> -32700, Message |-> "Parse error", Data |-> None]
ErrInvalidRequest == [Code |-> -32600, Message |-> "Invalid Request", Data |-> None]
ErrMethodNotFoundWrongCode == [Code |-> -32600, Message |-> "Method not found", Data |-> None]
ErrMethodNotFound == [Code |-> -32601, Message |-> "Method not found", Data |-> None]
ErrInvalidParams == [Code |-> -32602, Message |-> "Invalid params", Data |-> None]
ErrInternalError == [Code |-> -32603, Message |-> "Internal error", Data |-> None]
\* The dedicated at-most-once rejection: a code outside the reserved ranges.
ErrAtMostOnce == [Code |-> 1, Message |-> "At most once", Data |-> None]

\* json.Marshal(map[string]string{"reason": reason}) stored in Data.
withReason(e, reason) ==
    [e EXCEPT !.Data = Some("{\"reason\":\"" \o reason \o "\"}")]

\* errorResponse: a Response with the error set and no result.
errorResponseNilId(id, err) ==
    [JsonRpc |-> JsonRpc2, Result |-> None, Error |-> Some(err), Id |-> None]
errorResponse(id, err) ==
    [JsonRpc |-> JsonRpc2, Result |-> None, Error |-> Some(err), Id |-> id]

\* Request.validate: nil, or the error text.
RequestValidateNothing(r) == None
RequestValidate(r) ==
    IF r.JsonRpc # JsonRpc2 THEN Some("invalid jsonrpc version")
    ELSE IF r.Method = "" THEN Some("method should not be empty")
    ELSE IF r.Id = None THEN Some("id should not be nil")
    ELSE None

\* Response.validate: nil, or the error text.
ResponseValidate(r) ==
    IF r.JsonRpc # JsonRpc2 THEN Some("invalid jsonrpc version")
    ELSE IF r.Result = None /\ r.Error = None
         THEN Some("either result or error should not be nil")
    ELSE IF r.Result # None /\ r.Error # None
         THEN Some("either result or error should not be nil")
    ELSE None

\* ------------------------------------------------------- encoding/json
\* The JSON texts the requests of this model carry as params and the
\* responses as results, and the kind of JSON value each one is.
JsonKind(raw) ==
    CASE raw = "{}" -> "object"
      [] raw = "{\"A\":1,\"B\":2}" -> "object"
      [] raw = "[]" -> "array"
      [] raw = "null" -> "null"
      [] raw = "\"str\"" -> "string"
      [] raw \in {"0", "1", "2", "3", "4"} -> "number"
      [] raw \in {"{\"C\":0}", "{\"C\":1}", "{\"C\":2}", "{\"C\":3}", "{\"C\":4}"} -> "object"
      [] OTHER -> "invalid"

\* The integer fields A and B of a JSON object text (0 when the key is absent).
JsonField(raw, key) ==
    IF raw = "{\"A\":1,\"B\":2}" THEN (IF key = "A" THEN 1 ELSE 2) ELSE 0

\* strconv of the small integers results are made of
Itoa(n) ==
    CASE n = 0 -> "0" [] n = 1 -> "1" [] n = 2 -> "2" [] n = 3 -> "3"
      [] n = 4 -> "4" [] OTHER -> "?"

\* A decoded Go argument: t is the Go type, A and B the struct fields,
\* xs the slice elements.
ZeroValue(inType) == [t |-> inType, A |-> 0, B |-> 0, xs |-> <<>>]

\* json.Unmarshal(raw, dst) for dst of the input shapes the methods have:
\* "struct" (*struct{A, B int}), "slice" ([]int) and "any" (interface{}).
\* The JSON null leaves dst as it is.
jsonUnmarshal(raw, inType) ==
    LET k == JsonKind(raw) IN
    IF k = "invalid"
    THEN [err |-> Some("unexpected end of JSON input"), val |-> ZeroValue(inType)]
    ELSE IF k = "null"
    THEN [err |-> None, val |-> ZeroValue(inType)]
    ELSE IF inType = "struct" /\ k = "object"
    THEN [err |-> None,
          val |-> [t |-> inType, A |-> JsonField(raw, "A"),
                   B |-> JsonField(raw, "B"), xs |-> <<>>]]
    ELSE IF inType = "slice" /\ k = "array"
    THEN [err |-> None, val |-> ZeroValue(inType)]
    ELSE IF inType = "any"
    THEN [err |-> None, val |-> ZeroValue(inType)]
    ELSE [err |-> Some("json: cannot unmarshal " \o k \o " into Go value"),
          val |-> ZeroValue(inType)]

\* A Go result value: t = "struct" is *struct{C int} with C = n, t = "int"
\* the integer n, t = "inf" a float64 +Inf (which json.Marshal rejects).
\* json.Marshal(v): the bytes, or the error.
jsonMarshal(v) ==
    CASE v.t = "struct" -> [err |-> None, raw |-> "{\"C\":" \o Itoa(v.n) \o "}"]
      [] v.t = "int" -> [err |-> None, raw |-> Itoa(v.n)]
      [] OTHER -> [err |-> Some("json: unsupported value: +Inf"), raw |-> ""]

\* ------------------------------------------------------- method invoker
\* Request.unmarshalParam(inType): the decoded argument or an error.
unmarshalParamAcceptNil(r, inType) ==
    IF r.Params = None
    THEN [err |-> None, val |-> ZeroValue(inType)]
    ELSE jsonUnmarshal(r.Params[1], inType)
unmarshalParam(r, inType) ==
    IF r.Params = None
    THEN [err |-> Some("params should not be nil"), val |-> ZeroValue(inType)]
    ELSE jsonUnmarshal(r.Params[1], inType)

\* The registered Go functions, as the tests of the package write them: what
\* p.function.Call does with a decoded argument.  kind "ret" returns
\* (val, nil), "err" returns (nil, errors.New(msg)), "panic" panics with msg.
FunctionCall(function, param) ==
    CASE function = "fAdd" ->
           [kind |-> "ret", val |-> Some([t |-> "struct", n |-> param.A + param.B]),
            msg |-> ""]
      [] function = "fSum" ->
           [kind |-> "ret", val |-> Some([t |-> "int", n |-> Len(param.xs)]),
            msg |-> ""]
      [] function = "fError" -> [kind |-> "err", val |-> None, msg |-> "error"]
      [] function = "fPanic" -> [kind |-> "panic", val |-> None, msg |-> "panic"]
      [] function = "fPing" -> [kind |-> "ret", val |-> None, msg |-> ""]
      [] function = "fNil" ->
           [kind |-> "panic", val |-> None,
            msg |-> "reflect.Value.Call: call of nil function"]
      [] OTHER -> [kind |-> "ret", val |-> Some([t |-> "inf", n |-> 0]), msg |-> ""]

\* method.call: (ret, err) with a panic of the function recovered into err;
\* escaped is TRUE when a panic leaves call.
callNoRecover(m, param) ==
    LET out == FunctionCall(m.function, param) IN
    IF param.t # m.inType
    THEN [ret |-> None, err |-> Some("param type mismatch"), invoked |-> FALSE,
          escaped |-> FALSE]
    ELSE IF out.kind = "panic"
    THEN [ret |-> None, err |-> None, invoked |-> TRUE, escaped |-> TRUE]
    ELSE IF out.kind = "err"
    THEN [ret |-> None, err |-> Some(out.msg), invoked |-> TRUE, escaped |-> FALSE]
    ELSE [ret |-> out.val, err |-> None, invoked |-> TRUE, escaped |-> FALSE]
call(m, param) ==
    LET out == FunctionCall(m.function, param) IN
    IF param.t # m.inType
    THEN [ret |-> None, err |-> Some("param type mismatch"), invoked |-> FALSE,
          escaped |-> FALSE]
    ELSE IF out.kind = "panic"
    THEN [ret |-> None, err |-> Some("panic: " \o out.msg), invoked |-> TRUE,
          escaped |-> FALSE]
    ELSE IF out.kind = "err"
    THEN [ret |-> None, err |-> Some(out.msg), invoked |-> TRUE, escaped |-> FALSE]
    ELSE [ret |-> out.val, err |-> None, invoked |-> TRUE, escaped |-> FALSE]

\* Response.marshalResult: the Result field after the call, or the error.
marshalResult(result) ==
    IF result = None
    THEN [err |-> None, Result |-> None]
    ELSE LET b == jsonMarshal(result[1]) IN
         IF b.err # None THEN [err |-> b.err, Result |-> None]
         ELSE [err |-> None, Result |-> Some(b.raw)]

\* method.serveRequest for a non-nil request: the Response, whether the
\* function was invoked, and whether a panic escaped.
serveRequestWrongCode(m, r) ==
    LET res == [JsonRpc |-> JsonRpc2, Result |-> None, Error |-> None, Id |-> r.Id]
        param == unmarshalParam(r, m.inType)
        c == call(m, param.val)
        b == marshalResult(c.ret)
    IN  IF param.err # None
        THEN [resp |-> [res EXCEPT !.Error =
                          Some(withReason(ErrInvalidParams, param.err[1]))],
              invoked |-> FALSE, escaped |-> FALSE]
        ELSE IF c.escaped
        THEN [resp |-> res, invoked |-> c.invoked, escaped |-> TRUE]
        ELSE IF c.err # None
        THEN [resp |-> [res EXCEPT !.Error =
                          Some(withReason(ErrInternalError, c.err[1]))],
              invoked |-> c.invoked, escaped |-> FALSE]
        ELSE IF b.err # None
        THEN [resp |-> [res EXCEPT !.Error =
                          Some(withReason(ErrInternalError, b.err[1]))],
              invoked |-> c.invoked, escaped |-> FALSE]
        ELSE [resp |-> [res EXCEPT !.Result = b.Result],
              invoked |-> c.invoked, escaped |-> FALSE]
serveRequestCallsFirst(m, r) ==
    LET res == [JsonRpc |-> JsonRpc2, Result |-> None, Error |-> None, Id |-> r.Id]
        param == unmarshalParam(r, m.inType)
        c == call(m, param.val)
        b == marshalResult(c.ret)
    IN  IF param.err # None
        THEN [resp |-> [res EXCEPT !.Error =
                          Some(withReason(ErrInvalidParams, param.err[1]))],
              invoked |-> TRUE, escaped |-> FALSE]
        ELSE IF c.escaped
        THEN [resp |-> res, invoked |-> c.invoked, escaped |-> TRUE]
        ELSE IF c.err # None
        THEN [resp |-> [res EXCEPT !.Error =
                          Some([Code |-> -1, Message |-> c.err[1], Data |-> None])],
              invoked |-> c.invoked, escaped |-> FALSE]
        ELSE IF b.err # None
        THEN [resp |-> [res EXCEPT !.Error =
                          Some(withReason(ErrInternalError, b.err[1]))],
              invoked |-> c.invoked, escaped |-> FALSE]
        ELSE [resp |-> [res EXCEPT !.Result = b.Result],
              invoked |-> c.invoked, escaped |-> FALSE]
serveRequest(m, r) ==
    LET res == [JsonRpc |-> JsonRpc2, Result |-> None, Error |-> None, Id |-> r.Id]
        param == unmarshalParam(r, m.inType)
        c == call(m, param.val)
        b == marshalResult(c.ret)
    IN  IF param.err # None
        THEN [resp |-> [res EXCEPT !.Error =
                          Some(withReason(ErrInvalidParams, param.err[1]))],
              invoked |-> FALSE, escaped |-> FALSE]
        ELSE IF c.escaped
        THEN [resp |-> res, invoked |-> c.invoked, escaped |-> TRUE]
        ELSE IF c.err # None
        THEN [resp |-> [res EXCEPT !.Error =
                          Some([Code |-> -1, Message |-> c.err[1], Data |-> None])],
              invoked |-> c.invoked, escaped |-> FALSE]
        ELSE IF b.err # None
        THEN [resp |-> [res EXCEPT !.Error =
                          Some(withReason(ErrInternalError, b.err[1]))],
              invoked |-> c.invoked, escaped |-> FALSE]
        ELSE [resp |-> [res EXCEPT !.Result = b.Result],
              invoked |-> c.invoked, escaped |-> FALSE]

\* ------------------------------------------------------------------ client
\* An argument handed to Call as an `any`: the nil interface ("nil"), a nil
\* pointer ("nilptr"), struct{}{} ("empty"), &struct{A, B int}{A, B}
\* ("struct"), []int{} ("slice"), or a channel ("chan").
Arg(t, a, b) == [t |-> t, A |-> a, B |-> b]

\* json.Marshal(arg).
jsonMarshalArg(arg) ==
    CASE arg.t = "struct" /\ arg.A = 1 /\ arg.B = 2 ->
           [err |-> None, raw |-> "{\"A\":1,\"B\":2}"]
      [] arg.t = "empty" -> [err |-> None, raw |-> "{}"]
      [] arg.t = "slice" -> [err |-> None, raw |-> "[]"]
      [] arg.t \in {"nil", "nilptr"} -> [err |-> None, raw |-> "null"]
      [] OTHER -> [err |-> Some("json: unsupported type: chan int"), raw |-> ""]

\* atomic.Int64.Add(delta): the counter afterwards, and the value returned.
AddNoStore(n, delta) == [val |-> n, ret |-> n + delta]
Add(n, delta) == [val |-> n + delta, ret |-> n + delta]

\* NewClient and the first Call: nextId starts at 0, so the first id of
\* every Client is 1.
FirstId == Add(0, 1).ret

\* The error a Call returns: a *Error of a Response (rpc), or another error.
LocalError(msg) == [rpc |-> FALSE, Code |-> 0, Message |-> msg, Data |-> None]
RpcError(e) == [rpc |-> TRUE, Code |-> e.Code, Message |-> e.Message, Data |-> e.Data]

\* The value resultOut points to before the call: new(struct{C int}) for
\* "struct", new(int) for "int"; "nil" is a nil resultOut.
OutZero(ret) == [t |-> ret, n |-> 0]

\* The integer a JSON text of an object with the key C, or of a number, holds.
JsonNumber(raw) ==
    CASE raw \in {"0", "{\"C\":0}"} -> 0
      [] raw \in {"1", "{\"C\":1}"} -> 1
      [] raw \in {"2", "{\"C\":2}"} -> 2
      [] raw \in {"3", "{\"C\":3}"} -> 3
      [] raw \in {"4", "{\"C\":4}"} -> 4
      [] OTHER -> -1

\* Response.unmarshalResult(dst): json.Unmarshal(r.Result, dst), with dst
\* the value it leaves behind.
unmarshalResult(raw, dst) ==
    LET k == JsonKind(raw) IN
    IF k = "invalid"
    THEN [err |-> Some("invalid character"), val |-> dst]
    ELSE IF k = "null"
    THEN [err |-> None, val |-> dst]
    ELSE IF dst.t = "struct" /\ k = "object"
    THEN [err |-> None,
          val |-> IF JsonNumber(raw) >= 0 THEN [dst EXCEPT !.n = JsonNumber(raw)] ELSE dst]
    ELSE IF dst.t = "int" /\ k = "number"
    THEN [err |-> None, val |-> [dst EXCEPT !.n = JsonNumber(raw)]]
    ELSE [err |-> Some("json: cannot unmarshal " \o k \o " into Go value"), val |-> dst]

\* client.Call lines 202-221, once the transport has returned rpcResp: the
\* error Call returns and the value resultOut points to.
CallResultPreferResult(rpcResp, ret, out) ==
    IF rpcResp.Result # None
    THEN [err |-> None, out |-> unmarshalResult(rpcResp.Result[1], out).val]
    ELSE IF rpcResp.Error # None
    THEN [err |-> Some(RpcError(rpcResp.Error[1])), out |-> out]
    ELSE [err |-> Some(LocalError("result should not be nil")), out |-> out]
CallResultNoAbsentCheck(rpcResp, ret, out) ==
    IF rpcResp.Error # None
    THEN [err |-> Some(RpcError(rpcResp.Error[1])), out |-> out]
    ELSE [err |-> None, out |-> out]
CallResult(rpcResp, ret, out) ==
    IF rpcResp.Error # None
    THEN [err |-> Some(RpcError(rpcResp.Error[1])), out |-> out]
    ELSE IF ret = "nil"
    THEN [err |-> None, out |-> out]
    ELSE IF rpcResp.Result = None
    THEN [err |-> Some(LocalError("result should not be nil")), out |-> out]
    ELSE LET u == unmarshalResult(rpcResp.Result[1], out) IN
         [err |-> IF u.err # None THEN Some(LocalError(u.err[1])) ELSE None,
          out |-> u.val]

\* ------------------------------------------------------------ registration
\* A candidate f handed to Register as an `any`: the nil interface, a value
\* that is no function, or a value of a function type.  A value of a
\* function type has parameter types ins and result types outs, and may
\* itself be nil (var f func(*T) (*R, error)); fn names what it does when
\* called.
NilInterface ==
    [kind |-> "nil", isNil |-> TRUE, fn |-> "", ins |-> <<>>, outs |-> <<>>]
NotAFunc ==
    [kind |-> "int", isNil |-> FALSE, fn |-> "", ins |-> <<>>, outs |-> <<>>]
Func(fn, isNil, ins, outs) ==
    [kind |-> "func", isNil |-> isNil, fn |-> fn, ins |-> ins, outs |-> outs]

\* The candidates of Test_newMethod, and a nil value of a valid function type.
Candidates ==
    {NilInterface, NotAFunc,
     Func("emptyFunc", FALSE, <<>>, <<>>),
     Func("noArg", FALSE, <<>>, <<"struct", "error">>),
     Func("tooManyArgs", FALSE, <<"struct", "int">>, <<"struct", "error">>),
     Func("retWrong", FALSE, <<"struct">>, <<"error">>),
     Func("retNoErr", FALSE, <<"struct">>, <<"int", "float32">>),
     Func("fAdd", FALSE, <<"struct">>, <<"struct", "error">>),
     Func("fSum", FALSE, <<"slice">>, <<"int", "error">>),
     Func("fNil", TRUE, <<"struct">>, <<"struct", "error">>)}

\* reflect.Type.Implements(errorInterface) for the result types above.
Implements(t) == t = "error"

\* makeFunction: f == nil compares the interface value; a nil value of a
\* function type is not the nil interface.
makeFunction(f) ==
    IF f.kind = "nil" THEN Some("nil function")
    ELSE IF f.kind # "func" THEN Some("not a Func")
    ELSE None

\* makeInType: exactly one parameter.
makeInType(f) ==
    IF Len(f.ins) # 1 THEN Some("exactly 1 parameter expected") ELSE None

\* makeOutType: exactly two results, the second an error.
makeOutType(f) ==
    IF Len(f.outs) # 2 THEN Some("exactly 2 return value (ret, err) expected")
    ELSE IF ~Implements(f.outs[2]) THEN Some("the 2nd return value should be an error")
    ELSE None

\* newMethod = makeFunction + makeInType + makeOutType: the method, or the
\* error.
newMethod(f) ==
    IF makeFunction(f) # None THEN [err |-> makeFunction(f), rp |-> None]
    ELSE IF makeInType(f) # None THEN [err |-> makeInType(f), rp |-> None]
    ELSE IF makeOutType(f) # None THEN [err |-> makeOutType(f), rp |-> None]
    ELSE [err |-> None,
          rp |-> Some([function |-> f.fn, inType |-> f.ins[1], outType |-> f.outs[1]])]

\* Register line 57: _, exists := s.methods[name].
ExistsInverted(ms, name) == name \notin DOMAIN ms
ExistsNever(ms, name) == FALSE
Exists(ms, name) == name \in DOMAIN ms

\* Register line 69: s.methods[name] = rp.
StoreMethod(ms, name, rp) ==
    [n \in DOMAIN ms \cup {name} |-> IF n = name THEN rp ELSE ms[n]]

\* The names the serving program registers.
Names == {"add", "sum"}

\* ----------------------------------------------------- server dispatcher
\* sync.Map.LoadOrStore(key, struct{}{}) on the set of ids seen: whether the
\* key was loaded (dup), and the set afterwards.  One atomic step.
LoadOrStoreInverted(seen, key) == [dup |-> key \notin seen, seen |-> seen \cup {key}]
LoadOrStoreForgets(seen, key) ==
    IF key \in seen THEN [seen |-> seen \ {key}, dup |-> TRUE]
    ELSE [seen |-> seen \cup {key}, dup |-> FALSE]
LoadNoStore(seen, key) == [dup |-> key \in seen, seen |-> seen]
StoreNoLoad(seen, key) == [dup |-> FALSE, seen |-> seen \cup {key}]
LoadOrStore(seen, key) == [dup |-> key \in seen, seen |-> seen \cup {key}]

\* ServeRPC line 87: s.atMostOnce != nil && req.Id != nil.
AtMostOnceNever(amo, id) == FALSE
AtMostOnceApplies(amo, id) == amo # None /\ id # None

\* The methods the serving program registered before it serves, as
\* Register(name, f) stores them: method{function, inType, outType}.
Registry ==
    [add |-> [function |-> "fAdd", inType |-> "struct", outType |-> "struct"],
     sum |-> [function |-> "fSum", inType |-> "slice", outType |-> "int"],
     err |-> [function |-> "fError", inType |-> "struct", outType |-> "struct"],
     panic |-> [function |-> "fPanic", inType |-> "struct", outType |-> "struct"],
     ping |-> [function |-> "fPing", inType |-> "any", outType |-> "any"],
     inf |-> [function |-> "fInf", inType |-> "struct", outType |-> "float64"]]

\* ----------------------------------------------------------------- inputs
Ids == 1..MaxId
IdVals == {None} \cup {Some(i) : i \in Ids}

Request(m, ps, i) == [JsonRpc |-> JsonRpc2, Method |-> m, Params |-> ps, Id |-> i]
ZeroRequest == [JsonRpc |-> "", Method |-> "", Params |-> None, Id |-> None]

\* The *Request values callers hand to ServeRPC.  With the first id: every
\* method with params that decode, "add" also with params that are absent,
\* of the wrong shape and not empty, and "ping" (which takes any value) with
\* absent params.  With every other id and with no id: a registered method
\* and one that is not registered.
Requests ==
    {Request(m, Some("{}"), Some(1)) : m \in {"add", "err", "panic", "ping", "inf", "add1"}}
    \cup {Request("add", ps, Some(1)) : ps \in {None, Some("[]"), Some("{\"A\":1,\"B\":2}")}}
    \cup {Request("sum", Some("[]"), Some(1)), Request("ping", None, Some(1))}
    \cup {Request(m, Some("{}"), i) : m \in {"add", "add1"}, i \in IdVals}

\* An HTTP request body: text that is no JSON value (malformed), or a JSON
\* object with the keys jsonrpc, method, params and id ("id": null and a
\* missing key both leave the field nil).
Body(v, m, ps, i) ==
    [malformed |-> FALSE, jsonrpc |-> v, method |-> m, params |-> ps, id |-> i]
MalformedBody == [Body("", "", None, None) EXCEPT !.malformed = TRUE]
Bodies ==
    {MalformedBody}
    \cup {Body(JsonRpc2, "add", Some("{}"), i) : i \in {None, Some(1)}}
    \cup {Body(v, m, Some("{}"), Some(1)) :
            <<v, m>> \in {<<JsonRpc2, "add1">>, <<"1.0", "add">>, <<JsonRpc2, "">>}}

\* unmarshalRequest: json.NewDecoder(body).Decode(&req).
unmarshalRequest(b) ==
    IF b.malformed
    THEN [err |-> Some("unexpected EOF"), req |-> ZeroRequest]
    ELSE [err |-> None,
          req |-> [JsonRpc |-> b.jsonrpc, Method |-> b.method,
                   Params |-> b.params, Id |-> b.id]]

\* Request.toJSON: json.Marshal(r).  A nil Params is written as null.
toJSON(r) ==
    [malformed |-> FALSE, jsonrpc |-> r.JsonRpc, method |-> r.Method,
     params |-> IF r.Params = None THEN Some("null") ELSE r.Params, id |-> r.Id]

\* Response.marshal: the JSON object written; result and error are omitted
\* when empty (omitempty), and so is the data of the error.
marshalResponse(r) ==
    [jsonrpc |-> r.JsonRpc,
     result |-> IF r.Result = None \/ r.Result = Some("") THEN None ELSE r.Result,
     error |-> IF r.Error = None THEN None
               ELSE Some([code |-> r.Error[1].Code, message |-> r.Error[1].Message,
                          data |-> IF r.Error[1].Data = Some("") THEN None
                                   ELSE r.Error[1].Data]),
     id |-> r.Id]

\* unmarshalResponse: json.NewDecoder(body).Decode(&resp) of such an object.
unmarshalResponse(w) ==
    [JsonRpc |-> w.jsonrpc,
     Result |-> w.result,
     Error |-> IF w.error = None THEN None
               ELSE Some([Code |-> w.error[1].code, Message |-> w.error[1].message,
                          Data |-> w.error[1].data]),
     Id |-> w.id]

\* ------------------------------------------------------------------ state
VARIABLES
    methods,     \* server.methods: name -> method
    atMostOnce,  \* server.atMostOnce: nil, or the sync.Map as the set of its keys
    Verbose,     \* the package variable Verbose
    pc,          \* where each handler is: idle, dedup, serve, write, done, panic
    via,         \* "rpc": ServeRPC called directly; "http": through ServeHTTP
    parsed,      \* ServeHTTP: whether the body decoded
    req,         \* the request a handler serves
    resp,        \* the Response it has produced (nil before)
    status,      \* ServeHTTP: the HTTP status written (0: nothing written)
    called,      \* how often the handler's request invoked a registered function
    prior,       \* what earlier requests had returned when the request arrived
    invoked,     \* per id: invocations of registered functions so far
    tally,       \* per id: the Responses ServeRPC returned so far, by class
    started,     \* requests handed to the server so far
    mu,          \* server.mu: the goroutine holding the write lock, and the readers
    reg,         \* the Register call a goroutine is in: its arguments and results
    regCalls,    \* Register calls made so far
    crashed,     \* the runtime has ended the process (fatal error)
    nextId,      \* client.nextId
    cl,          \* the Call a goroutine of the client program is in
    clCalls,     \* Calls made so far
    ids,         \* the ids nextId.Add has returned, in order
    doneMax,     \* the largest id of a Call that has returned
    conn,        \* per handler: the Call whose HTTP request it serves (nil: none)
    codec,       \* the value being encoded and decoded: input, bytes, output
    lockMu,      \* lock server: LockServer.mu, the channel (capacity and length)
    wg,          \* lock client: the counter of the sync.WaitGroup
    critical,    \* lock client: the variable critical
    lpc,         \* lock client: where each goroutine is
    tmp,         \* lock client: the value a goroutine read for critical += 1
    mainPc,      \* lock client: where main is
    printed      \* lock client: the value of critical main printed (nil before)

regVars == <<mu, reg, regCalls, crashed>>
lockVars == <<lockMu, wg, critical, lpc, tmp, mainPc, printed>>
clientVars == <<nextId, cl, clCalls, ids, doneMax, conn, codec, lockVars>>

vars == <<methods, atMostOnce, Verbose, pc, via, parsed, req, resp, status,
          called, prior, invoked, tally, started, regVars, clientVars>>

Classes == {"success", "failure", "atmostonce", "notfound"}

\* The class of a Response ServeRPC returns.
ClassOf(r) ==
    IF r.Error = Some(ErrMethodNotFound) THEN "notfound"
    ELSE IF r.Error = Some(ErrAtMostOnce) THEN "atmostonce"
    ELSE IF r.Error = None /\ r.Result # None THEN "success"
    ELSE "failure"

Count(t, id, r) ==
    IF id = None THEN t
    ELSE [t EXCEPT ![id[1]][ClassOf(r)] = @ + 1]

Answered(id) == tally[id]["success"] + tally[id]["failure"] + tally[id]["atmostonce"]

\* No goroutine is inside the server.
HandlersIdle ==
    /\ pc = [p \in Procs |-> "idle"]
    /\ via = [p \in Procs |-> "rpc"]
    /\ parsed = [p \in Procs |-> TRUE]
    /\ req = [p \in Procs |-> ZeroRequest]
    /\ resp = [p \in Procs |-> None]
    /\ status = [p \in Procs |-> 0]
    /\ called = [p \in Procs |-> 0]
    /\ prior = [p \in Procs |-> [any |-> FALSE, found |-> FALSE]]
    /\ invoked = [i \in Ids |-> 0]
    /\ tally = [i \in Ids |-> [c \in Classes |-> 0]]
    /\ started = 0

\* A goroutine that is in no Register call.
NoRegister ==
    [name |-> "", f |-> NilInterface, wasBound |-> FALSE, rp |-> None, err |-> None]

\* The zero sync.RWMutex, and no Register call in progress.
RegisterIdle ==
    /\ mu = [writer |-> None, readers |-> {}]
    /\ reg = [p \in Procs |-> NoRegister]
    /\ regCalls = 0
    /\ crashed = FALSE

\* A goroutine that is in no Call.
\* The delta main passes to NewLockServer.
LockDelta == 1

\* NewLockServer(delta): mu is make(chan struct{}, delta).
NewLockServerOffByOne(delta) == [cap |-> delta + 1, len |-> 0]
NewLockServer(delta) == [cap |-> delta, len |-> 0]

\* The lock server has been created and the lock client program starts: no
\* goroutine has been started, critical is 0 and the WaitGroup counts 0.
LockIdle ==
    /\ lockMu = NewLockServer(LockDelta)
    /\ wg = 0
    /\ critical = 0
    /\ lpc = [g \in Procs |-> "unborn"]
    /\ tmp = [g \in Procs |-> 0]
    /\ mainPc = "loop"
    /\ printed = None

\* Nothing is being encoded.
NoCodec == [pc |-> "idle", in |-> None, wire |-> None, out |-> None]

NoCall ==
    [pc |-> "idle", method |-> "", arg |-> Arg("nil", 0, 0), ret |-> "nil",
     out |-> OutZero("nil"), id |-> None, floor |-> 0, sent |-> FALSE,
     rpcResp |-> None, err |-> None]

\* NewClient(transport): the zero counter, and no Call in progress.
ClientIdle ==
    /\ nextId = 0
    /\ cl = [c \in Procs |-> NoCall]
    /\ clCalls = 0
    /\ ids = <<>>
    /\ doneMax = 0
    /\ conn = [p \in Procs |-> None]
    /\ codec = NoCodec
    /\ LockIdle

\* NewServer(), optionally .WithAtMostOnce(), the Register calls of the
\* serving program, and Verbose as the program set it: the server as it is
\* when it starts to serve.
Init ==
    /\ methods = Registry
    /\ atMostOnce \in {None, Some({})}
    /\ Verbose \in BOOLEAN
    /\ HandlersIdle
    /\ RegisterIdle
    /\ ClientIdle

\* Where a handler goes when ServeRPC has returned.
AfterServeRPC(v) == IF v = "http" THEN "write" ELSE "done"

PriorOf(id) ==
    IF id = None THEN [any |-> FALSE, found |-> FALSE]
    ELSE [any |-> Answered(id[1]) + tally[id[1]]["notfound"] > 0,
          found |-> Answered(id[1]) > 0]

LookupMarksFirst(p, r, v) ==
    /\ started < MaxCalls
    /\ started' = started + 1
    /\ req' = [req EXCEPT ![p] = r]
    /\ via' = [via EXCEPT ![p] = v]
    /\ parsed' = [parsed EXCEPT ![p] = TRUE]
    /\ prior' = [prior EXCEPT ![p] = PriorOf(r.Id)]
    /\ called' = [called EXCEPT ![p] = 0]
    /\ status' = [status EXCEPT ![p] = 0]
    /\ IF r.Method \notin DOMAIN methods
       THEN /\ resp' = [resp EXCEPT ![p] = Some(errorResponse(r.Id, ErrMethodNotFound))]
            /\ pc' = [pc EXCEPT ![p] = AfterServeRPC(v)]
            /\ tally' = Count(tally, r.Id, errorResponse(r.Id, ErrMethodNotFound))
       ELSE /\ resp' = [resp EXCEPT ![p] = None]
            /\ pc' = [pc EXCEPT ![p] = IF Verbose /\ r.Id = None THEN "panic" ELSE "dedup"]
            /\ tally' = tally
    /\ atMostOnce' = IF r.Method \notin DOMAIN methods /\ AtMostOnceApplies(atMostOnce, r.Id)
                     THEN Some(atMostOnce[1] \cup {r.Id[1]})
                     ELSE atMostOnce
    /\ UNCHANGED <<methods, Verbose, invoked>>

\* ServeRPC lines 74-85: the lookup under the read lock, the MethodNotFound
\* return, and the verbose log line, which dereferences req.Id.
Lookup(p, r, v) ==
    /\ started < MaxCalls
    /\ started' = started + 1
    /\ req' = [req EXCEPT ![p] = r]
    /\ via' = [via EXCEPT ![p] = v]
    /\ parsed' = [parsed EXCEPT ![p] = TRUE]
    /\ prior' = [prior EXCEPT ![p] = PriorOf(r.Id)]
    /\ called' = [called EXCEPT ![p] = 0]
    /\ status' = [status EXCEPT ![p] = 0]
    /\ IF r.Method \notin DOMAIN methods
       THEN /\ resp' = [resp EXCEPT ![p] = Some(errorResponse(r.Id, ErrMethodNotFound))]
            /\ pc' = [pc EXCEPT ![p] = AfterServeRPC(v)]
            /\ tally' = Count(tally, r.Id, errorResponse(r.Id, ErrMethodNotFound))
       ELSE /\ resp' = [resp EXCEPT ![p] = None]
            /\ pc' = [pc EXCEPT ![p] = IF Verbose /\ r.Id = None THEN "panic" ELSE "dedup"]
            /\ tally' = tally
    /\ UNCHANGED <<methods, atMostOnce, Verbose, invoked>>

\* A caller calls ServeRPC(req) directly.
ServeRPC(p) ==
    /\ pc[p] = "idle"
    /\ \E r \in Requests : Lookup(p, r, "rpc")
    /\ UNCHANGED <<regVars, clientVars>>

\* ServeHTTP lines 47-70 with a body that decodes and validates: the handler
\* goes on into ServeRPC.
Accept(p, b) ==
    LET d == unmarshalRequest(b) IN
    /\ pc[p] = "idle"
    /\ d.err = None
    /\ RequestValidate(d.req) = None
    /\ Lookup(p, d.req, "http")

\* An HTTP request arrives with a body that decodes and validates.
ServeHTTP(p) ==
    /\ \E b \in Bodies : Accept(p, b)
    /\ UNCHANGED <<regVars, clientVars>>

\* ServeHTTP lines 50-68: the body does not decode, or the request fails
\* validation; the error Response goes to writeJsonResponse.
ServeHTTPReject(p) ==
    /\ pc[p] = "idle"
    /\ started < MaxCalls
    /\ \E b \in Bodies :
         LET d == unmarshalRequest(b)
             v == RequestValidate(d.req)
         IN  /\ d.err # None \/ v # None
             /\ req' = [req EXCEPT ![p] = d.req]
             /\ parsed' = [parsed EXCEPT ![p] = (d.err = None)]
             /\ resp' = [resp EXCEPT ![p] =
                    IF d.err # None
                    THEN Some(errorResponse(None, withReason(ErrParseError, d.err[1])))
                    ELSE Some(errorResponse(d.req.Id, withReason(ErrInvalidRequest, v[1])))]
    /\ started' = started + 1
    /\ via' = [via EXCEPT ![p] = "http"]
    /\ pc' = [pc EXCEPT ![p] = "write"]
    /\ called' = [called EXCEPT ![p] = 0]
    /\ status' = [status EXCEPT ![p] = 0]
    /\ prior' = [prior EXCEPT ![p] = [any |-> FALSE, found |-> FALSE]]
    /\ UNCHANGED <<methods, atMostOnce, Verbose, invoked, tally, regVars, clientVars>>

\* ServeRPC lines 87-92: the at-most-once check.
Dedup(p) ==
    /\ pc[p] = "dedup"
    /\ IF AtMostOnceApplies(atMostOnce, req[p].Id)
       THEN LET l == LoadOrStore(atMostOnce[1], req[p].Id[1]) IN
            /\ atMostOnce' = Some(l.seen)
            /\ IF l.dup
               THEN /\ resp' = [resp EXCEPT ![p] =
                           Some(errorResponse(req[p].Id, ErrAtMostOnce))]
                    /\ pc' = [pc EXCEPT ![p] = AfterServeRPC(via[p])]
                    /\ tally' = Count(tally, req[p].Id,
                                      errorResponse(req[p].Id, ErrAtMostOnce))
               ELSE /\ pc' = [pc EXCEPT ![p] = "serve"]
                    /\ UNCHANGED <<resp, tally>>
       ELSE /\ pc' = [pc EXCEPT ![p] = "serve"]
            /\ UNCHANGED <<atMostOnce, resp, tally>>
    /\ UNCHANGED <<methods, Verbose, via, parsed, req, status, called, prior,
                   invoked, started, regVars, clientVars>>

\* ServeRPC lines 94-101: m.serveRequest(req), the second verbose log line
\* (resp.Id is req.Id, non-nil here when Verbose), and the return.
ServeRequestForgetsFailure(p) ==
    /\ pc[p] = "serve"
    /\ LET s == serveRequest(methods[req[p].Method], req[p]) IN
       /\ called' = [called EXCEPT ![p] = IF s.invoked THEN @ + 1 ELSE @]
       /\ invoked' = IF s.invoked /\ req[p].Id # None
                     THEN [invoked EXCEPT ![req[p].Id[1]] = @ + 1]
                     ELSE invoked
       /\ IF s.escaped
          THEN /\ pc' = [pc EXCEPT ![p] = "panic"]
               /\ UNCHANGED <<resp, tally>>
          ELSE /\ resp' = [resp EXCEPT ![p] = Some(s.resp)]
               /\ pc' = [pc EXCEPT ![p] = AfterServeRPC(via[p])]
               /\ tally' = Count(tally, req[p].Id, s.resp)
       /\ atMostOnce' = IF atMostOnce # None /\ req[p].Id # None /\ ~s.escaped
                            /\ s.resp.Error # None
                         THEN Some(atMostOnce[1] \ {req[p].Id[1]})
                         ELSE atMostOnce
    /\ UNCHANGED <<methods, Verbose, via, parsed, req, status, prior,
                   started, regVars, clientVars>>
ServeRequest(p) ==
    /\ pc[p] = "serve"
    /\ LET s == serveRequest(methods[req[p].Method], req[p]) IN
       /\ called' = [called EXCEPT ![p] = IF s.invoked THEN @ + 1 ELSE @]
       /\ invoked' = IF s.invoked /\ req[p].Id # None
                     THEN [invoked EXCEPT ![req[p].Id[1]] = @ + 1]
                     ELSE invoked
       /\ IF s.escaped
          THEN /\ pc' = [pc EXCEPT ![p] = "panic"]
               /\ UNCHANGED <<resp, tally>>
          ELSE /\ resp' = [resp EXCEPT ![p] = Some(s.resp)]
               /\ pc' = [pc EXCEPT ![p] = AfterServeRPC(via[p])]
               /\ tally' = Count(tally, req[p].Id, s.resp)
    /\ UNCHANGED <<methods, atMostOnce, Verbose, via, parsed, req, status, prior,
                   started, regVars, clientVars>>

\* writeJsonResponse and the http.Error calls of ServeHTTP.  A Response that
\* does not validate is not written, and http.Error sets the status: 400
\* after a decode or validation failure, 500 after ServeRPC.  Otherwise the
\* Response is encoded to w with status 200; when that write fails (ioErr)
\* http.Error is called too, and sets the status unless the writer has
\* committed the 200 already (committed).
WriteJson(p, ioErr, committed) ==
    /\ pc[p] = "write"
    /\ LET invalid == ResponseValidate(resp[p][1]) # None
           rejected == ~parsed[p] \/ RequestValidate(req[p]) # None
       IN  status' = [status EXCEPT ![p] =
               IF invalid \/ (ioErr /\ ~committed)
               THEN (IF rejected THEN 400 ELSE 500)
               ELSE 200]
    /\ pc' = [pc EXCEPT ![p] = "done"]
    /\ UNCHANGED <<methods, atMostOnce, Verbose, via, parsed, req, resp, called,
                   prior, invoked, tally, started, regVars, clientVars>>

\* The Response is written to a connection that may fail.
WriteJsonResponse(p) == \E ioErr, committed \in BOOLEAN : WriteJson(p, ioErr, committed)

\* The Response is written to a connection that does not fail.
WriteJsonReliable(p) == WriteJson(p, FALSE, FALSE)

\* The handler has returned (and the client, if there is one, has read what
\* it wrote); the goroutine serves the next request.
Return(p) ==
    /\ pc[p] \in {"done", "panic"}
    /\ conn[p] = None
    /\ pc' = [pc EXCEPT ![p] = "idle"]
    /\ via' = [via EXCEPT ![p] = "rpc"]
    /\ parsed' = [parsed EXCEPT ![p] = TRUE]
    /\ req' = [req EXCEPT ![p] = ZeroRequest]
    /\ resp' = [resp EXCEPT ![p] = None]
    /\ status' = [status EXCEPT ![p] = 0]
    /\ called' = [called EXCEPT ![p] = 0]
    /\ prior' = [prior EXCEPT ![p] = [any |-> FALSE, found |-> FALSE]]
    /\ UNCHANGED <<methods, atMostOnce, Verbose, invoked, tally, started, regVars, clientVars>>

\* Callers call ServeRPC concurrently.
Next ==
    \E p \in Procs :
        \/ ServeRPC(p)
        \/ Dedup(p)
        \/ ServeRequest(p)
        \/ Return(p)

Spec == Init /\ [][Next]_vars

\* The server also serves HTTP requests through the HttpServerTransport.
NextHTTP ==
    \E p \in Procs :
        \/ ServeRPC(p)
        \/ ServeHTTP(p)
        \/ ServeHTTPReject(p)
        \/ Dedup(p)
        \/ ServeRequest(p)
        \/ WriteJsonResponse(p)
        \/ Return(p)

SpecHTTP == Init /\ [][NextHTTP]_vars

\* ------------------------------------------------- registration at run time
\* NewServer(): no method is registered, at-most-once is off.
InitRegister ==
    /\ methods = [n \in {} |-> None]
    /\ atMostOnce = None
    /\ Verbose = FALSE
    /\ HandlersIdle
    /\ RegisterIdle
    /\ ClientIdle

handlerVars == <<via, parsed, req, resp, status, called, prior, invoked, tally,
                 started>>

\* A goroutine is inside Register.
InRegister(p) == pc[p] \in {"regCheck", "regLock", "regStore"}

\* A goroutine calls Register(name, f).
Register(p) ==
    /\ pc[p] = "idle"
    /\ regCalls < MaxRegs
    /\ \E name \in Names, f \in Candidates :
         reg' = [reg EXCEPT ![p] =
                   [NoRegister EXCEPT !.name = name, !.f = f,
                                      !.wasBound = name \in DOMAIN methods]]
    /\ regCalls' = regCalls + 1
    /\ pc' = [pc EXCEPT ![p] = "regCheck"]
    /\ UNCHANGED <<methods, atMostOnce, Verbose, handlerVars, clientVars, mu, crashed>>

\* Register is called while no other Register call is in progress.
RegisterAlone(p) ==
    /\ \A q \in Procs : ~InRegister(q)
    /\ Register(p)

\* Register lines 57-65 once the map has been read: the duplicate error, or
\* newMethod(f) and its error.
Checked(p, exists) ==
    LET n == newMethod(reg[p].f) IN
    IF exists
    THEN /\ reg' = [reg EXCEPT ![p].err =
                      Some("multiple registrations for " \o reg[p].name)]
         /\ pc' = [pc EXCEPT ![p] = "regDone"]
    ELSE IF n.err # None
    THEN /\ reg' = [reg EXCEPT ![p].err = n.err]
         /\ pc' = [pc EXCEPT ![p] = "regDone"]
    ELSE /\ reg' = [reg EXCEPT ![p].rp = n.rp]
         /\ pc' = [pc EXCEPT ![p] = "regLock"]

\* Another goroutine is about to write the map.
WriterAt(p) == \E q \in Procs \ {p} : pc[q] = "regStore"

\* Register line 57 reads s.methods without the lock.  A read that is
\* concurrent with a write of the map is a data race: it may see any answer,
\* or the runtime detects it and ends the process ("concurrent map read and
\* map write").
RegisterCheck(p) ==
    /\ pc[p] = "regCheck"
    /\ IF WriterAt(p)
       THEN \/ /\ \E exists \in BOOLEAN : Checked(p, exists)
               /\ UNCHANGED crashed
            \/ /\ crashed' = TRUE
               /\ UNCHANGED <<pc, reg>>
       ELSE /\ Checked(p, Exists(methods, reg[p].name))
            /\ UNCHANGED crashed
    /\ UNCHANGED <<methods, atMostOnce, Verbose, handlerVars, clientVars, mu, regCalls>>

\* Register line 66: s.mu.Lock().
RegisterLock(p) ==
    /\ pc[p] = "regLock"
    /\ mu.writer = None /\ mu.readers = {}
    /\ mu' = [mu EXCEPT !.writer = Some(p)]
    /\ pc' = [pc EXCEPT ![p] = "regStore"]
    /\ UNCHANGED <<methods, atMostOnce, Verbose, handlerVars, clientVars, reg, regCalls, crashed>>

\* Register lines 67-70: the store, return nil, and the deferred Unlock.
RegisterStore(p) ==
    /\ pc[p] = "regStore"
    /\ methods' = StoreMethod(methods, reg[p].name, reg[p].rp[1])
    /\ mu' = [mu EXCEPT !.writer = None]
    /\ pc' = [pc EXCEPT ![p] = "regDone"]
    /\ UNCHANGED <<atMostOnce, Verbose, handlerVars, clientVars, reg, regCalls, crashed>>

\* The caller of Register goes on.
RegisterReturn(p) ==
    /\ pc[p] = "regDone"
    /\ pc' = [pc EXCEPT ![p] = "idle"]
    /\ reg' = [reg EXCEPT ![p] = NoRegister]
    /\ UNCHANGED <<methods, atMostOnce, Verbose, handlerVars, clientVars, mu, regCalls, crashed>>

\* The requests served while methods are being registered.
RegisterRequests == {Request(m, Some("{}"), Some(1)) : m \in Names}

\* ServeRPC line 75: s.mu.RLock().
ServeRPCRLock(p) ==
    /\ pc[p] = "idle"
    /\ started < MaxLookups /\ started < MaxCalls
    /\ mu.writer = None
    /\ \E r \in RegisterRequests : req' = [req EXCEPT ![p] = r]
    /\ mu' = [mu EXCEPT !.readers = @ \cup {p}]
    /\ pc' = [pc EXCEPT ![p] = "lookup"]
    /\ UNCHANGED <<methods, atMostOnce, Verbose, via, parsed, resp, status, called,
                   prior, invoked, tally, started, reg, regCalls, crashed,
                   clientVars>>

\* ServeRPC lines 76-85: the lookup, s.mu.RUnlock(), and what follows.
ServeRPCLookup(p) ==
    /\ pc[p] = "lookup"
    /\ Lookup(p, req[p], "rpc")
    /\ mu' = [mu EXCEPT !.readers = @ \ {p}]
    /\ UNCHANGED <<reg, regCalls, crashed, clientVars>>

\* Goroutines call Register and ServeRPC concurrently, until the runtime
\* ends the process.
NextRegister ==
    /\ ~crashed
    /\ \E p \in Procs :
        \/ Register(p)
        \/ RegisterCheck(p)
        \/ RegisterLock(p)
        \/ RegisterStore(p)
        \/ RegisterReturn(p)
        \/ ServeRPCRLock(p)
        \/ ServeRPCLookup(p)
        \/ Dedup(p)
        \/ ServeRequest(p)
        \/ Return(p)

SpecRegister == InitRegister /\ [][NextRegister]_vars

\* The Register calls of a program that sets its server up before it serves:
\* they follow one another.
NextRegisterSeq ==
    \E p \in Procs :
        \/ RegisterAlone(p)
        \/ RegisterCheck(p)
        \/ RegisterLock(p)
        \/ RegisterStore(p)
        \/ RegisterReturn(p)

SpecRegisterSeq == InitRegister /\ [][NextRegisterSeq]_vars

\* ------------------------------------------------- options set at run time
\* No goroutine is inside ServeRPC.
NoServeRPC == \A p \in Procs : pc[p] \notin {"lookup", "dedup", "serve"}

\* WithAtMostOnce(): s.atMostOnce = new(sync.Map), whatever it was.  It is
\* called between the calls of ServeRPC, never during one.
WithAtMostOnce ==
    /\ NoServeRPC
    /\ atMostOnce' = Some({})
    /\ UNCHANGED <<methods, Verbose, pc, handlerVars, regVars, clientVars>>

\* The program calls Register, WithAtMostOnce and ServeRPC on its server.
NextOptions ==
    \/ NextRegister
    \/ ~crashed /\ WithAtMostOnce

SpecOptions == InitRegister /\ [][NextOptions]_vars

\* ------------------------------------------------------------ client calls
serverVars == <<methods, atMostOnce, Verbose, pc, handlerVars>>

\* The Calls the client program makes: Call(method, arg, resultOut), with the
\* type resultOut points to ("nil": resultOut is nil).
ClientCall(m, arg, ret) == [method |-> m, arg |-> arg, ret |-> ret]
ClientCalls ==
    {ClientCall("add", Arg("struct", 1, 2), ret) : ret \in {"nil", "struct"}}
    \cup {ClientCall("add", arg, "struct") :
            arg \in {Arg("nil", 0, 0), Arg("nilptr", 0, 0), Arg("chan", 0, 0)}}
    \cup {ClientCall("", Arg("struct", 1, 2), "struct")}

\* The largest id of a Call that has returned.
FinishedMax ==
    LET S == {doneMax} \cup {cl[d].id[1] :
                               d \in {e \in Procs : cl[e].pc = "done" /\ cl[e].id # None}}
    IN  CHOOSE m \in S : \A x \in S : x <= m

\* Call has returned err; resultOut points to out.
CallReturns(c, cc, err, out) ==
    [cc EXCEPT !.pc = "done", !.err = err, !.out = out]

\* client.Call lines 172-194: the nil test, json.Marshal(arg), the id, the
\* Request and its validation.
CallStart(c, cc) ==
    LET b == jsonMarshalArg(cc.arg)
        a == Add(nextId, 1)
        r == Request(cc.method, Some(b.raw), Some(a.ret))
        v == RequestValidate(r)
        new == [NoCall EXCEPT !.method = cc.method, !.arg = cc.arg,
                              !.ret = cc.ret, !.out = OutZero(cc.ret),
                              !.floor = FinishedMax]
    IN  /\ cl[c].pc = "idle"
        /\ clCalls < MaxCalls
        /\ clCalls' = clCalls + 1
        /\ IF cc.arg.t = "nil"
           THEN /\ cl' = [cl EXCEPT ![c] =
                           CallReturns(c, new, Some(LocalError("arg is nil")), new.out)]
                /\ UNCHANGED <<nextId, ids>>
           ELSE IF b.err # None
           THEN /\ cl' = [cl EXCEPT ![c] =
                           CallReturns(c, new, Some(LocalError(b.err[1])), new.out)]
                /\ UNCHANGED <<nextId, ids>>
           ELSE /\ nextId' = a.val
                /\ ids' = Append(ids, a.ret)
                /\ cl' = [cl EXCEPT ![c] =
                           IF v # None
                           THEN CallReturns(c, [new EXCEPT !.id = Some(a.ret)],
                                            Some(LocalError(v[1])), new.out)
                           ELSE [new EXCEPT !.id = Some(a.ret), !.pc = "send"]]
        /\ UNCHANGED <<doneMax, conn, codec, lockVars>>

\* The Request client.Call hands to the transport.
CallRequest(c) ==
    Request(cl[c].method, Some(jsonMarshalArg(cl[c].arg).raw), cl[c].id)

\* A goroutine of the client program calls Call.
Call(c) ==
    /\ \E cc \in ClientCalls : CallStart(c, cc)
    /\ UNCHANGED <<serverVars, regVars>>

\* What a transport may hand back for a request with the given id: a result,
\* an error, both, or neither.
TransportResponses(id) ==
    {[JsonRpc |-> JsonRpc2, Result |-> res, Error |-> e, Id |-> id] :
        res \in {None, Some("{\"C\":3}"), Some("\"str\"")},
        e \in {None, Some(withReason(ErrInvalidParams, "params should not be nil"))}}

\* client.Call lines 196-221 with any ClientTransport: SendAndReceive returns
\* an error, or a Response that Call unpacks.
SendAndReceive(c) ==
    /\ cl[c].pc = "send"
    /\ \/ cl' = [cl EXCEPT ![c] =
                   CallReturns(c, [cl[c] EXCEPT !.sent = TRUE],
                               Some(LocalError("transport")), cl[c].out)]
       \/ \E rpcResp \in TransportResponses(cl[c].id) :
            LET u == CallResult(rpcResp, cl[c].ret, cl[c].out) IN
            cl' = [cl EXCEPT ![c] =
                     CallReturns(c, [cl[c] EXCEPT !.sent = TRUE,
                                                  !.rpcResp = Some(rpcResp)],
                                 u.err, u.out)]
    /\ UNCHANGED <<nextId, clCalls, ids, doneMax, conn, codec, lockVars, serverVars, regVars>>

\* Call has returned to its caller.
CallReturn(c) ==
    /\ cl[c].pc = "done"
    /\ doneMax' = IF cl[c].id # None /\ cl[c].id[1] > doneMax
                  THEN cl[c].id[1] ELSE doneMax
    /\ cl' = [cl EXCEPT ![c] = NoCall]
    /\ UNCHANGED <<nextId, clCalls, ids, conn, codec, lockVars, serverVars, regVars>>

\* A client program with its Client; the server it talks to is set up.
InitClient ==
    /\ methods = Registry
    /\ atMostOnce = None
    /\ Verbose = FALSE
    /\ HandlersIdle
    /\ RegisterIdle
    /\ ClientIdle

\* Goroutines share one Client over some transport.
NextClient ==
    \E c \in Procs :
        \/ Call(c)
        \/ SendAndReceive(c)
        \/ CallReturn(c)

SpecClient == InitClient /\ [][NextClient]_vars

\* ------------------------------------------------- client and server over HTTP
\* The Calls of a client program to the methods of the serving program.
RemoteCalls ==
    {ClientCall("add", Arg("struct", 1, 2), "struct"),
     ClientCall("add", Arg("empty", 0, 0), "struct"),
     ClientCall("sum", Arg("slice", 0, 0), "int"),
     ClientCall("err", Arg("struct", 1, 2), "struct"),
     ClientCall("ping", Arg("empty", 0, 0), "struct"),
     ClientCall("inf", Arg("empty", 0, 0), "struct")}

CallRemote(c) ==
    /\ \E cc \in RemoteCalls : CallStart(c, cc)
    /\ UNCHANGED <<serverVars, regVars>>

\* HttpClientTransport.SendAndReceive lines 116-125: req.toJSON() and the
\* POST, which a handler of the server takes up in ServeHTTP.
Post(c, p) ==
    /\ cl[c].pc = "send"
    /\ Accept(p, toJSON(CallRequest(c)))
    /\ conn' = [conn EXCEPT ![p] = Some(c)]
    /\ cl' = [cl EXCEPT ![c].pc = "recv", ![c].sent = TRUE]
    /\ UNCHANGED <<regVars, nextId, clCalls, ids, doneMax, codec, lockVars>>

\* HttpClientTransport.SendAndReceive lines 128-134 and client.Call lines
\* 198-221: the body the handler wrote is decoded.  When the handler wrote
\* the Response (status 200) it decodes into it; when http.Error wrote the
\* text of an error instead, or the handler panicked, SendAndReceive
\* returns an error.
Receive(c) ==
    /\ cl[c].pc = "recv"
    /\ \E p \in Procs :
         /\ conn[p] = Some(c)
         /\ pc[p] \in {"done", "panic"}
         /\ conn' = [conn EXCEPT ![p] = None]
         /\ IF pc[p] = "done" /\ status[p] = 200
            THEN LET rpcResp == unmarshalResponse(marshalResponse(resp[p][1]))
                     u == CallResult(rpcResp, cl[c].ret, cl[c].out)
                 IN  cl' = [cl EXCEPT ![c] =
                              CallReturns(c, [cl[c] EXCEPT !.rpcResp = Some(rpcResp)],
                                          u.err, u.out)]
            ELSE cl' = [cl EXCEPT ![c] =
                          CallReturns(c, cl[c],
                                      Some(LocalError("invalid character")), cl[c].out)]
    /\ UNCHANGED <<nextId, clCalls, ids, doneMax, codec, lockVars, serverVars, regVars>>

\* A serving program with its methods registered, and a client program.
InitRemote ==
    /\ methods = Registry
    /\ atMostOnce \in {None, Some({})}
    /\ Verbose \in BOOLEAN
    /\ HandlersIdle
    /\ RegisterIdle
    /\ ClientIdle

\* Goroutines of the client program call methods of the server over HTTP
\* connections that do not fail.
NextRemote ==
    \E c, p \in Procs :
        \/ CallRemote(c)
        \/ Post(c, p)
        \/ Dedup(p)
        \/ ServeRequest(p)
        \/ WriteJsonReliable(p)
        \/ Receive(c)
        \/ Return(p)
        \/ CallReturn(c)

SpecRemote == InitRemote /\ [][NextRemote]_vars

\* ------------------------------------------------------ encode and decode
\* The Request values a program may encode: any version, method, params
\* (nil, an object, the text null) and id (nil or not).
CodecRequests ==
    {[JsonRpc |-> v, Method |-> m, Params |-> ps, Id |-> i] :
        v \in {JsonRpc2, "1.0", ""}, m \in {"add", ""},
        ps \in {None, Some("{}"), Some("null")}, i \in IdVals}

\* The Response values a program may encode: a result, an error (with and
\* without data), neither or both, and any id.
CodecResponses ==
    {[JsonRpc |-> v, Result |-> res, Error |-> e, Id |-> i] :
        v \in {JsonRpc2, ""},
        res \in {None, Some("{\"C\":3}"), Some("null")},
        e \in {None, Some(ErrInvalidParams),
               Some(withReason(ErrInvalidParams, "params should not be nil"))},
        i \in IdVals}

\* Request.marshal / Request.toJSON of a Request.
EncodeRequest ==
    /\ codec.pc = "idle"
    /\ \E r \in CodecRequests :
         codec' = [pc |-> "request", in |-> Some(r), wire |-> Some(toJSON(r)),
                   out |-> None]
    /\ UNCHANGED <<serverVars, regVars, nextId, cl, clCalls, ids, doneMax, conn, lockVars>>

\* unmarshalRequest of the bytes.
DecodeRequest ==
    /\ codec.pc = "request"
    /\ codec' = [codec EXCEPT !.pc = "done",
                              !.out = Some(unmarshalRequest(codec.wire[1]).req)]
    /\ UNCHANGED <<serverVars, regVars, nextId, cl, clCalls, ids, doneMax, conn, lockVars>>

\* Response.marshal of a Response.
EncodeResponse ==
    /\ codec.pc = "idle"
    /\ \E r \in CodecResponses :
         codec' = [pc |-> "response", in |-> Some(r),
                   wire |-> Some(marshalResponse(r)), out |-> None]
    /\ UNCHANGED <<serverVars, regVars, nextId, cl, clCalls, ids, doneMax, conn, lockVars>>

\* unmarshalResponse of the bytes.
DecodeResponse ==
    /\ codec.pc = "response"
    /\ codec' = [codec EXCEPT !.pc = "done",
                              !.out = Some(unmarshalResponse(codec.wire[1]))]
    /\ UNCHANGED <<serverVars, regVars, nextId, cl, clCalls, ids, doneMax, conn, lockVars>>

\* The decoded value has been used; the next one is encoded.
CodecReturn ==
    /\ codec.pc = "done"
    /\ codec' = NoCodec
    /\ UNCHANGED <<serverVars, regVars, nextId, cl, clCalls, ids, doneMax, conn, lockVars>>

NextCodec ==
    \/ EncodeRequest
    \/ DecodeRequest
    \/ EncodeResponse
    \/ DecodeResponse
    \/ CodecReturn

SpecCodec == InitClient /\ [][NextCodec]_vars

\* ---------------------------------------------------------- lock service
\* The lock client program: main starts N goroutines (N is MaxProcs here),
\* each calls tryLock, and main waits for the WaitGroup and prints critical.
\* The Calls go to the lock server; a Call to a registered method whose
\* function returns a value returns nil, so each Call is the request
\* reaching the server, the function running there, and the return.
otherVars == <<serverVars, regVars, nextId, cl, clCalls, ids, doneMax, conn, codec>>

\* The process runs until main returns.
Running == mainPc # "exit"

\* main lines 47-53: go func() { ... }() for the next i.
Go(g) ==
    /\ mainPc = "loop"
    /\ lpc[g] = "unborn"
    /\ lpc' = [lpc EXCEPT ![g] = "new"]
    /\ UNCHANGED <<lockMu, wg, critical, tmp, mainPc, printed, otherVars>>

\* main line 47: the loop ends after N goroutines.
LoopEnd ==
    /\ mainPc = "loop"
    /\ \A g \in Procs : lpc[g] # "unborn"
    /\ mainPc' = "wait"
    /\ UNCHANGED <<lockMu, wg, critical, lpc, tmp, printed, otherVars>>

\* main line 55: wg.Wait() returns when the counter is 0.
Wait ==
    /\ mainPc = "wait"
    /\ wg = 0
    /\ mainPc' = "read"
    /\ UNCHANGED <<lockMu, wg, critical, lpc, tmp, printed, otherVars>>

\* main lines 57-62: critical is read and printed, and main returns.
PrintCritical ==
    /\ mainPc = "read"
    /\ printed' = Some(critical)
    /\ mainPc' = "exit"
    /\ UNCHANGED <<lockMu, wg, critical, lpc, tmp, otherVars>>

\* A goroutine moves from one place to the next.
Step(g, from, to) ==
    /\ Running
    /\ lpc[g] = from
    /\ lpc' = [lpc EXCEPT ![g] = to]
    /\ UNCHANGED <<mainPc, printed, otherVars>>

\* goroutine line 49: wg.Add(1).
WgAdd(g) ==
    /\ Step(g, "new", "lock")
    /\ wg' = wg + 1
    /\ UNCHANGED <<lockMu, critical, tmp>>

\* tryLock line 31: mutex.Call(lock.MethodLock, ...) is sent.
CallLock(g) ==
    /\ Step(g, "lock", "lockSent")
    /\ UNCHANGED <<lockMu, wg, critical, tmp>>

\* LockServer.Lock: s.mu <- struct{}{} blocks while the channel is full.
Lock(g) ==
    /\ Step(g, "lockSent", "lockReply")
    /\ lockMu.len < lockMu.cap
    /\ lockMu' = [lockMu EXCEPT !.len = @ + 1]
    /\ UNCHANGED <<wg, critical, tmp>>

\* tryLock line 31: the Call returns nil.
LockReturn(g) ==
    /\ Step(g, "lockReply", "cs")
    /\ UNCHANGED <<lockMu, wg, critical, tmp>>

\* tryLock line 34, critical += 1: the read.
CriticalRead(g) ==
    /\ Step(g, "cs", "csWrite")
    /\ tmp' = [tmp EXCEPT ![g] = critical]
    /\ UNCHANGED <<lockMu, wg, critical>>

\* tryLock line 34, critical += 1: the write.
CriticalWrite(g) ==
    /\ Step(g, "csWrite", "unlock")
    /\ critical' = tmp[g] + 1
    /\ UNCHANGED <<lockMu, wg, tmp>>

\* tryLock line 36: mutex.Call(lock.MethodUnlock, ...) is sent.
CallUnlock(g) ==
    /\ Step(g, "unlock", "unlockSent")
    /\ UNCHANGED <<lockMu, wg, critical, tmp>>

\* LockServer.Unlock: <-s.mu blocks while the channel is empty.
Unlock(g) ==
    /\ Step(g, "unlockSent", "unlockReply")
    /\ lockMu.len > 0
    /\ lockMu' = [lockMu EXCEPT !.len = @ - 1]
    /\ UNCHANGED <<wg, critical, tmp>>

\* tryLock line 36: the Call returns nil, and tryLock returns.
UnlockReturn(g) ==
    /\ Step(g, "unlockReply", "unlocked")
    /\ UNCHANGED <<lockMu, wg, critical, tmp>>

\* goroutine line 50: the deferred wg.Done().
WgDone(g) ==
    /\ Step(g, "unlocked", "done")
    /\ wg' = wg - 1
    /\ UNCHANGED <<lockMu, critical, tmp>>

NextLock ==
    \/ LoopEnd
    \/ Wait
    \/ PrintCritical
    \/ \E g \in Procs :
        \/ Go(g)
        \/ WgAdd(g)
        \/ CallLock(g)
        \/ Lock(g)
        \/ LockReturn(g)
        \/ CriticalRead(g)
        \/ CriticalWrite(g)
        \/ CallUnlock(g)
        \/ Unlock(g)
        \/ UnlockReturn(g)
        \/ WgDone(g)

SpecLock == InitClient /\ [][NextLock]_vars

\* Fair scheduling and a transport that delivers: every goroutine that can
\* take its next step takes it.  A send into the channel that is blocked is
\* queued by the runtime and served in order of arrival, so a Lock that can
\* go on again and again does go on.
LockFairness ==
    /\ WF_vars(LoopEnd)
    /\ WF_vars(Wait)
    /\ WF_vars(PrintCritical)
    /\ \A g \in Procs :
         /\ WF_vars(Go(g))
         /\ WF_vars(WgAdd(g))
         /\ WF_vars(CallLock(g))
         /\ SF_vars(Lock(g))
         /\ WF_vars(LockReturn(g))
         /\ WF_vars(CriticalRead(g))
         /\ WF_vars(CriticalWrite(g))
         /\ WF_vars(CallUnlock(g))
         /\ WF_vars(Unlock(g))
         /\ WF_vars(UnlockReturn(g))
         /\ WF_vars(WgDone(g))

SpecLockFair == SpecLock /\ LockFairness

\* ------------------------------------------------------------- properties
\* ServeHTTP answered the body itself, without calling ServeRPC.
Rejected(p) == via[p] = "http" /\ (~parsed[p] \/ RequestValidate(req[p]) # None)

\* ServeRPC has returned the Response resp[p][1] for req[p].
Returned(p) == resp[p] # None /\ ~Rejected(p)

\* The handler's call of ServeRPC is over: it returned, or a panic left it.
Over(p) == Returned(p) \/ pc[p] = "panic"

Registered(p) == req[p].Method \in DOMAIN methods

IsAtMostOnce(r) == r.Error # None /\ r.Error[1].Code = ErrAtMostOnce.Code
IsSuccess(r) == r.Error = None /\ r.Result # None

\* No request with id i for a registered method is still inside ServeRPC.
Quiescent(i) ==
    \A p \in Procs : pc[p] \in {"dedup", "serve"} => req[p].Id # Some(i)

\* C1: with at-most-once enabled, the registered functions are invoked at
\* most once in total for any request id, in every interleaving of the
\* ServeRPC calls.
C1_AtMostOncePerId ==
    atMostOnce # None => \A i \in Ids : invoked[i] <= 1

\* Two requests with one id met: one was dispatched, the other deflected.
C1_Witness ==
    /\ atMostOnce # None
    /\ \E i \in Ids : invoked[i] = 1 /\ tally[i]["atmostonce"] >= 1

\* C2 as stated: of the N requests with one id for a registered method,
\* exactly one gets a success Response and N-1 get AtMostOnce.
C2_ExactlyOneSuccess ==
    atMostOnce # None =>
        \A i \in Ids :
            Quiescent(i) /\ Answered(i) >= 1 =>
                /\ tally[i]["success"] = 1
                /\ tally[i]["atmostonce"] = Answered(i) - 1

\* C2 amended: of the N requests with one id for a registered method,
\* exactly one is dispatched to the method (and is answered with the
\* method's own Response, a success or a failure), the other N-1 get
\* AtMostOnce; the function runs at most once for them all.
C2_ExactlyOneDispatched ==
    atMostOnce # None =>
        \A i \in Ids :
            Quiescent(i) /\ Answered(i) >= 1 =>
                /\ tally[i]["success"] + tally[i]["failure"] = 1
                /\ tally[i]["atmostonce"] = Answered(i) - 1
                /\ invoked[i] <= 1

C2_Witness ==
    /\ atMostOnce # None
    /\ \E i \in Ids :
         /\ Quiescent(i)
         /\ tally[i]["success"] = 1
         /\ tally[i]["atmostonce"] = MaxCalls - 1

\* C3 as stated: with at-most-once enabled, a request carrying an id that
\* an earlier request already carried returns AtMostOnce with that id and
\* invokes nothing.
C3_SeenIdRejected ==
    atMostOnce # None =>
        \A p \in Procs :
            Returned(p) /\ req[p].Id # None /\ prior[p].any =>
                /\ IsAtMostOnce(resp[p][1])
                /\ resp[p][1].Id = req[p].Id
                /\ called[p] = 0

\* C3 amended: with at-most-once enabled, a request for a registered method
\* carrying an id that an earlier request for a registered method already
\* carried returns AtMostOnce with that id and invokes nothing.
C3_DispatchedIdRejected ==
    atMostOnce # None =>
        \A p \in Procs :
            Returned(p) /\ req[p].Id # None /\ prior[p].found /\ Registered(p) =>
                /\ IsAtMostOnce(resp[p][1])
                /\ resp[p][1].Result = None
                /\ resp[p][1].Id = req[p].Id
                /\ called[p] = 0

C3_Witness ==
    /\ atMostOnce # None
    /\ \E p \in Procs :
         /\ Returned(p) /\ prior[p].found /\ Registered(p)
         /\ IsAtMostOnce(resp[p][1])

\* The params of the request decode into the input shape of its method.
Decodable(p) ==
    unmarshalParam(req[p], methods[req[p].Method].inType).err = None

\* C4: without at-most-once, every ServeRPC request for a registered method
\* with decodable params invokes the function exactly once and is not
\* rejected because of its id.
C4_EveryRequestDispatched ==
    atMostOnce = None =>
        \A p \in Procs :
            Over(p) /\ Registered(p) /\ Decodable(p) =>
                /\ called[p] = 1
                /\ resp[p] # None
                /\ ~IsAtMostOnce(resp[p][1])

\* C5: every Response ServeRPC returns has version "2.0" and exactly one of
\* result and error.
C5_ResultXorError ==
    \A p \in Procs :
        Returned(p) =>
            /\ resp[p][1].JsonRpc = "2.0"
            /\ (resp[p][1].Result = None) # (resp[p][1].Error = None)

\* C6: every Response of ServeRPC and of the HTTP transport carries the id
\* of the request it answers: it is nil exactly when the body did not parse
\* or the request carried no id.
C6_IdEchoed ==
    \A p \in Procs :
        resp[p] # None =>
            /\ parsed[p] => resp[p][1].Id = req[p].Id
            /\ resp[p][1].Id = None <=> (~parsed[p] \/ req[p].Id = None)

C6_Witness ==
    \E p, q \in Procs :
        /\ via[p] = "http" /\ Returned(p) /\ status[p] = 200 /\ resp[p][1].Id = Some(1)
        /\ via[q] = "http" /\ ~parsed[q] /\ resp[q] # None

\* The function the request is dispatched to panics.
Panics(p) ==
    /\ Registered(p)
    /\ Decodable(p)
    /\ FunctionCall(methods[req[p].Method].function,
                    unmarshalParam(req[p], methods[req[p].Method].inType).val).kind
         = "panic"


\* What the function the request is dispatched to does with its argument.
Outcome(p) ==
    FunctionCall(methods[req[p].Method].function,
                 unmarshalParam(req[p], methods[req[p].Method].inType).val)

\* C7: a request whose function panics is answered with an error and no
\* result, and the panic ends no handler, neither its own nor another; the
\* requests whose function returns a value are answered with that value,
\* before and after a panic.
C7_PanicRecovered ==
    \A p \in Procs :
        /\ called[p] >= 1 => pc[p] # "panic"
        /\ called[p] >= 1 /\ Panics(p) =>
               /\ Returned(p)
               /\ resp[p][1].Error # None
               /\ resp[p][1].Result = None
        /\ Returned(p) /\ called[p] >= 1 /\ Outcome(p).kind = "ret"
             /\ Outcome(p).val # None /\ jsonMarshal(Outcome(p).val[1]).err = None =>
               /\ resp[p][1].Error = None
               /\ resp[p][1].Result = Some(jsonMarshal(Outcome(p).val[1]).raw)

\* A function panicked and was answered; a later request with the same id
\* was dispatched and succeeded.
C7_Witness ==
    \E p, q \in Procs :
        /\ called[p] = 1 /\ Panics(p) /\ Returned(p)
        /\ prior[q].found /\ req[q].Id = req[p].Id
        /\ Returned(q) /\ called[q] = 1 /\ IsSuccess(resp[q][1])

\* The function the request is dispatched to returns a non-nil error.
ReturnsError(p) ==
    /\ Registered(p)
    /\ Decodable(p)
    /\ FunctionCall(methods[req[p].Method].function,
                    unmarshalParam(req[p], methods[req[p].Method].inType).val).kind
         = "err"

ErrorMessage(p) ==
    FunctionCall(methods[req[p].Method].function,
                 unmarshalParam(req[p], methods[req[p].Method].inType).val).msg

\* C8: when the function returns a non-nil error, the Response has no
\* result and an error with code -1 and the error's message.
C8_FunctionError ==
    \A p \in Procs :
        Returned(p) /\ called[p] = 1 /\ ReturnsError(p) =>
            /\ resp[p][1].Result = None
            /\ resp[p][1].Error # None
            /\ resp[p][1].Error[1].Code = -1
            /\ resp[p][1].Error[1].Message = ErrorMessage(p)

C8_Witness ==
    \E p \in Procs : Returned(p) /\ called[p] = 1 /\ ReturnsError(p)

\* C9: a request for a method that is not registered returns an error
\* Response with code -32601 and the request's id, and invokes nothing.
C9_MethodNotFound ==
    \A p \in Procs :
        pc[p] # "idle" /\ ~Rejected(p) /\ ~Registered(p) =>
            /\ Returned(p)
            /\ resp[p][1].Error # None
            /\ resp[p][1].Error[1].Code = -32601
            /\ resp[p][1].Result = None
            /\ resp[p][1].Id = req[p].Id
            /\ called[p] = 0

C9_Witness ==
    \E p \in Procs :
        pc[p] # "idle" /\ ~Registered(p) /\ Returned(p) /\ req[p].Id = Some(1)

\* serveRequest has answered the request: ServeRPC returned, the method was
\* found and the id was not a duplicate.
Served(p) == Returned(p) /\ Registered(p) /\ ~IsAtMostOnce(resp[p][1])

IsInvalidParams(r) == r.Error # None /\ r.Error[1].Code = -32602

\* C10: absent params are answered with InvalidParams and the function is
\* not invoked, whatever the input shape; params that are an empty object
\* for an object shape, or an empty array for an array shape, decode and
\* the function is invoked.
C10_AbsentAndEmptyParams ==
    \A p \in Procs :
        Served(p) =>
            /\ req[p].Params = None =>
                   IsInvalidParams(resp[p][1]) /\ called[p] = 0
            /\ req[p].Params = Some("{}") /\ methods[req[p].Method].inType = "struct" =>
                   ~IsInvalidParams(resp[p][1]) /\ called[p] = 1
            /\ req[p].Params = Some("[]") /\ methods[req[p].Method].inType = "slice" =>
                   ~IsInvalidParams(resp[p][1]) /\ called[p] = 1

C10_Witness ==
    \E p, q \in Procs :
        /\ Served(p) /\ req[p].Params = None /\ IsInvalidParams(resp[p][1])
        /\ Served(q) /\ req[q].Params = Some("[]") /\ called[q] = 1

\* ------------------------------------------------ properties: registration
\* The Register call of p has returned: reg[p].err is what it returned.
RegisterReturned(p) == pc[p] = "regDone"

\* The candidate is a function value that newMethod accepts.
Valid(f) == newMethod(f).err = None

\* C11: after any sequence of Register calls a name stays bound to the
\* function of the first successful Register for it: a Register for a name
\* that is bound returns an error, a successful Register has bound the name
\* to its function, and no step removes or replaces a binding.
C11_FirstRegistrationKept ==
    /\ [](\A p \in Procs :
            RegisterReturned(p) =>
                /\ reg[p].wasBound => reg[p].err # None
                /\ reg[p].err = None =>
                       /\ reg[p].name \in DOMAIN methods
                       /\ methods[reg[p].name] = reg[p].rp[1])
    /\ [][\A n \in DOMAIN methods :
              n \in DOMAIN methods' /\ methods'[n] = methods[n]]_vars

\* A name was registered, and a later Register of another valid function
\* for it was refused; the name is still bound to the first function.
C11_Witness ==
    \E p, q \in Procs :
        /\ RegisterReturned(p) /\ reg[p].err = None
        /\ RegisterReturned(q) /\ reg[q].wasBound /\ reg[q].err # None
        /\ reg[q].name = reg[p].name
        /\ Valid(reg[q].f) /\ reg[q].f.fn # reg[p].f.fn
        /\ methods[reg[p].name].function = reg[p].f.fn

\* C12: of two concurrent Register calls for one unbound name, both with
\* valid functions, exactly one returns nil and the other an error, and the
\* name is bound to the function of the one that returned nil.
C12_ExactlyOneRegisters ==
    \A p, q \in Procs :
        /\ p # q
        /\ RegisterReturned(p) /\ RegisterReturned(q)
        /\ reg[p].name = reg[q].name
        /\ ~reg[p].wasBound /\ ~reg[q].wasBound
        /\ Valid(reg[p].f) /\ Valid(reg[q].f)
        => /\ (reg[p].err = None) # (reg[q].err = None)
           /\ reg[p].err = None => methods[reg[p].name].function = reg[p].f.fn

\* The goroutine is about to read, or to write, the registry map.
AtRead(p) == pc[p] \in {"regCheck", "lookup"}
AtWrite(p) == pc[p] = "regStore"

\* C13: every read of the registry map happens under the read or the write
\* lock and every write under the write lock, so that no read is concurrent
\* with a write.
C13_MapUnderLock ==
    \A p \in Procs :
        /\ AtRead(p) => p \in mu.readers \/ mu.writer = Some(p)
        /\ AtWrite(p) => mu.writer = Some(p)
        /\ \A q \in Procs \ {p} : ~(AtRead(p) /\ AtWrite(q))

\* What the claim accepts: a non-nil function value with exactly one
\* parameter and exactly two results, the second an error.
Acceptable(f) ==
    /\ f.kind = "func"
    /\ ~f.isNil
    /\ Len(f.ins) = 1
    /\ Len(f.outs) = 2
    /\ Implements(f.outs[2])

\* C14: Register of an unbound name accepts f exactly when f is a non-nil
\* function value with one parameter and two results, the second an error,
\* and then records the parameter type and the first result type; every
\* other candidate is rejected with an error.
C14_AcceptsExactlyValid ==
    \A p \in Procs :
        RegisterReturned(p) /\ ~reg[p].wasBound =>
            /\ reg[p].err = None <=> Acceptable(reg[p].f)
            /\ reg[p].err = None =>
                   /\ methods[reg[p].name].inType = reg[p].f.ins[1]
                   /\ methods[reg[p].name].outType = reg[p].f.outs[1]

\* ------------------------------------------------------ properties: client
\* Call has returned: cl[c].err is the error, cl[c].out what resultOut holds.
CallDone(c) == cl[c].pc = "done"

\* C15: the ids of the requests one Client builds are positive and pairwise
\* distinct, the first is 1; a Call that starts after another has returned
\* gets a larger id, and two Calls in progress never hold the same id.
C15_FreshIds ==
    /\ \A i \in 1..Len(ids) : ids[i] > 0
    /\ \A i, j \in 1..Len(ids) : i # j => ids[i] # ids[j]
    /\ Len(ids) > 0 => ids[1] = 1
    /\ \A c \in Procs : cl[c].id # None =>
           /\ cl[c].id[1] > cl[c].floor
           /\ \E i \in 1..Len(ids) : ids[i] = cl[c].id[1]
    /\ \A c, d \in Procs :
           c # d /\ cl[c].id # None /\ cl[d].id # None => cl[c].id # cl[d].id

\* Two Calls are in progress at once, each with its id.
C15_Witness ==
    \E c, d \in Procs :
        /\ c # d
        /\ cl[c].pc = "send" /\ cl[d].pc = "send"
        /\ cl[c].id = Some(1) /\ cl[d].id = Some(2)

\* The Call fails before the transport: arg is nil, arg does not serialise,
\* or the Request does not validate (its method name is empty; its version
\* and id are those Call sets).
LocalFault(c) ==
    \/ cl[c].arg.t = "nil"
    \/ jsonMarshalArg(cl[c].arg).err # None
    \/ cl[c].method = ""

C17_ErrorReturned ==
    \A c \in Procs :
        CallDone(c) /\ cl[c].rpcResp # None /\ cl[c].rpcResp[1].Error # None =>
            /\ cl[c].err # None
            /\ cl[c].err[1].rpc
            /\ cl[c].err[1].Code = cl[c].rpcResp[1].Error[1].Code
            /\ cl[c].err[1].Message = cl[c].rpcResp[1].Error[1].Message
            /\ cl[c].err[1].Data = cl[c].rpcResp[1].Error[1].Data
            /\ cl[c].out = OutZero(cl[c].ret)

\* A Response with an error, its data, and a result too was returned to a
\* Call with a non-nil resultOut.
C17_Witness ==
    \E c \in Procs :
        /\ CallDone(c) /\ cl[c].rpcResp # None /\ cl[c].ret = "struct"
        /\ cl[c].rpcResp[1].Error # None /\ cl[c].rpcResp[1].Error[1].Data # None
        /\ cl[c].rpcResp[1].Result = Some("{\"C\":3}")
        /\ cl[c].err # None /\ cl[c].err[1].Code = -32602

\* The transport has returned a Response without an error to the Call.
GotResult(c) ==
    CallDone(c) /\ cl[c].rpcResp # None /\ cl[c].rpcResp[1].Error = None

\* C18 as stated: on a Response without an error, Call returns nil without
\* decoding when resultOut is nil; otherwise it fails when the result is
\* absent, and else decodes the result into resultOut and returns nil.
C18_DecodesAndSucceeds ==
    \A c \in Procs :
        GotResult(c) =>
            /\ cl[c].ret = "nil" => cl[c].err = None /\ cl[c].out = OutZero("nil")
            /\ cl[c].ret # "nil" /\ cl[c].rpcResp[1].Result = None => cl[c].err # None
            /\ cl[c].ret # "nil" /\ cl[c].rpcResp[1].Result # None => cl[c].err = None

\* C18 amended: on a Response without an error, Call returns nil without
\* decoding when resultOut is nil; otherwise it fails when the result is
\* absent, and else decodes the result into resultOut: it returns nil when
\* the result decodes into the type resultOut points to, and the decoding
\* error, with resultOut as it was, when it does not.
C18_DecodesOrFails ==
    \A c \in Procs :
        GotResult(c) =>
            /\ cl[c].ret = "nil" => cl[c].err = None /\ cl[c].out = OutZero("nil")
            /\ cl[c].ret # "nil" /\ cl[c].rpcResp[1].Result = None =>
                   /\ cl[c].err # None
                   /\ cl[c].out = OutZero(cl[c].ret)
            /\ cl[c].ret # "nil" /\ cl[c].rpcResp[1].Result # None =>
                   LET u == unmarshalResult(cl[c].rpcResp[1].Result[1],
                                            OutZero(cl[c].ret)) IN
                   /\ (cl[c].err = None) <=> (u.err = None)
                   /\ cl[c].err = None /\ cl[c].rpcResp[1].Result[1] = "{\"C\":3}" =>
                          cl[c].out = [t |-> "struct", n |-> 3]
                   /\ cl[c].err # None =>
                          ~cl[c].err[1].rpc /\ cl[c].out = OutZero(cl[c].ret)

\* One Call decoded a result into resultOut; another got a result that does
\* not decode into its resultOut, and failed.
C18_Witness ==
    \E c, d \in Procs :
        /\ GotResult(c) /\ cl[c].ret = "struct"
        /\ cl[c].rpcResp[1].Result = Some("{\"C\":3}")
        /\ cl[c].err = None /\ cl[c].out.n = 3
        /\ GotResult(d) /\ cl[d].ret = "struct"
        /\ cl[d].rpcResp[1].Result = Some("\"str\"")
        /\ cl[d].err # None

\* --------------------------------------------- properties: client and server
\* What the function of the called method does with the decoded argument.
RemoteOutcome(c) ==
    LET m == methods[cl[c].method] IN
    FunctionCall(m.function, unmarshalParam(CallRequest(c), m.inType).val)

\* The Call is to a registered method, with an argument that decodes into
\* its input shape, and the function returns (v, nil).
ReturnsValue(c) ==
    /\ cl[c].method \in DOMAIN methods
    /\ unmarshalParam(CallRequest(c), methods[cl[c].method].inType).err = None
    /\ RemoteOutcome(c).kind = "ret"

\* C19: over connections that do not fail, a Call to a registered method
\* with an argument that decodes, whose function returns (v, nil), returns
\* nil with resultOut equal to v, its own result also when Calls run
\* concurrently.
C19_CallReturnsResult ==
    \A c \in Procs :
        CallDone(c) /\ cl[c].sent /\ ReturnsValue(c) =>
            /\ cl[c].err = None
            /\ RemoteOutcome(c).val # None => cl[c].out = RemoteOutcome(c).val[1]

\* ------------------------------------------- properties: rejected messages
\* Handler p moves in this step and the message it holds was rejected.
RejectedStep(p) == pc'[p] # pc[p] /\ (Rejected(p))'

\* C20: an HTTP message that does not decode, or whose Request fails
\* validation, never enters ServeRPC: its handler is never at a step of
\* ServeRPC, no function runs for it and none of its steps marks an id.  It
\* is answered with ParseError (-32700, id nil) when it did not decode and
\* with InvalidRequest (-32600, the id of the request, nil when it has none)
\* when it failed validation.
C20_RejectedNotDispatched ==
    /\ [](\A p \in Procs :
            Rejected(p) =>
                /\ pc[p] \in {"write", "done"}
                /\ called[p] = 0
                /\ resp[p] # None
                /\ resp[p][1].Result = None
                /\ resp[p][1].Error # None
                /\ resp[p][1].Error[1].Code = (IF parsed[p] THEN -32600 ELSE -32700)
                /\ resp[p][1].Id = (IF parsed[p] THEN req[p].Id ELSE None))
    /\ [][\A p \in Procs :
            RejectedStep(p) =>
                /\ atMostOnce' = atMostOnce
                /\ invoked' = invoked
                /\ tally' = tally]_vars

C20_Witness ==
    \E p, q \in Procs :
        /\ Rejected(p) /\ ~parsed[p] /\ pc[p] = "done"
        /\ Rejected(q) /\ parsed[q] /\ pc[q] = "done" /\ req[q].Id = Some(1)
        /\ atMostOnce = Some({})

\* ------------------------------------------------ properties: HTTP status
\* C21: the ParseError Response for a body that did not decode and the
\* InvalidRequest Response for a request that failed validation are written
\* with HTTP status 400; the Response of ServeRPC is written with 200, and
\* with 500 when writeJsonResponse fails on it.
C21_StatusOfRejected ==
    \A p \in Procs :
        via[p] = "http" /\ pc[p] = "done" =>
            IF Rejected(p)
            THEN status[p] = 400
            ELSE /\ status[p] \in {200, 500}
                 /\ ResponseValidate(resp[p][1]) # None => status[p] = 500

\* ------------------------------------------------ properties: diagnostics
\* C22: the verbose diagnostics are a side effect only.  Whatever Verbose
\* is, a request for a registered method goes on from the lookup to the
\* at-most-once check, as it does with Verbose off, and ServeRPC ends in a
\* panic only where it does with Verbose off: when serveRequest lets one
\* escape.
C22_DiagnosticsSideEffectOnly ==
    /\ [](\A p \in Procs :
            pc[p] = "panic" =>
                /\ Registered(p)
                /\ serveRequest(methods[req[p].Method], req[p]).escaped)
    /\ [][\A p \in Procs :
            pc[p] = "idle" /\ pc'[p] # "idle" /\ via'[p] = "rpc"
            /\ req'[p].Method \in DOMAIN methods
                => pc'[p] = "dedup"]_vars

\* ------------------------------------------------ properties: the dedup set
\* C23: whatever the program calls on its server (Register, WithAtMostOnce,
\* ServeRPC), an id that is in the dedup set stays in it.
C23_DedupEntriesKept ==
    [][\A i \in Ids :
         atMostOnce # None /\ i \in atMostOnce[1]
             => atMostOnce' # None /\ i \in atMostOnce'[1]]_vars

\* -------------------------------------------------- properties: round trip
\* C24: a Request that is encoded and then decoded comes back equal in all
\* four fields, also when its params or its id is nil; so does a Response.
C24_RoundTrip ==
    codec.pc = "done" => codec.out = codec.in

\* ------------------------------------------------ properties: lock service
\* The goroutine is in the critical section: its Lock call has returned and
\* its Unlock call has not started.
InCritical(g) == lpc[g] \in {"cs", "csWrite", "unlock"}

\* C25: with the lock server created with delta 1, at most one client is
\* in the critical section at any time.
C25_MutualExclusion ==
    \A g, h \in Procs : InCritical(g) /\ InCritical(h) => g = h

C25_Witness ==
    \E g, h \in Procs : InCritical(g) /\ lpc[h] = "lockSent" /\ critical = 1

\* C26: when main prints its result, critical equals N.
C26_PrintsN ==
    printed # None => printed[1] = MaxProcs

\* ---------------------------------------------- properties: order of steps
\* C27: a request invokes a registered function at most once, and only at
\* the serveRequest step, which comes after the lookup and the at-most-once
\* check: its method is registered, its id (when at-most-once applies) has
\* been marked and was not refused, and its params decode.  A request that
\* fails one of these invokes nothing.
C27_InvokedAfterChecks ==
    /\ [](\A p \in Procs :
            /\ called[p] <= 1
            /\ called[p] = 1 =>
                 /\ pc[p] \notin {"idle", "dedup", "serve"}
                 /\ Registered(p)
                 /\ Decodable(p)
                 /\ atMostOnce # None /\ req[p].Id # None
                        => req[p].Id[1] \in atMostOnce[1]
                 /\ resp[p] # None => ~IsAtMostOnce(resp[p][1]))
    /\ [][\A p \in Procs : called'[p] > called[p] => pc[p] = "serve"]_vars

C27_Witness ==
    \E p, q \in Procs :
        /\ atMostOnce # None
        /\ called[p] = 1 /\ resp[p] # None
        /\ called[q] = 0 /\ resp[q] # None
        /\ (IsAtMostOnce(resp[q][1]) \/ IsInvalidParams(resp[q][1]))

\* ------------------------------------------------ properties: frame effect
\* C28: no step of ServeRPC changes the registry; on a server without
\* at-most-once no step changes the server at all, and with at-most-once a
\* step changes at most the dedup set, by adding the id of the request it
\* is checking.
C28_ServeRPCFrame ==
    [][/\ methods' = methods
       /\ Verbose' = Verbose
       /\ atMostOnce = None => atMostOnce' = None
       /\ atMostOnce # None =>
            /\ atMostOnce' # None
            /\ \/ atMostOnce' = atMostOnce
               \/ \E p \in Procs :
                    /\ pc[p] = "dedup"
                    /\ req[p].Id # None
                    /\ atMostOnce'[1] = atMostOnce[1] \cup {req[p].Id[1]}]_vars

C28_Witness ==
    \E p, q \in Procs :
        /\ methods = Registry
        /\ Returned(p) /\ IsSuccess(resp[p][1])
        /\ Returned(q) /\ IsAtMostOnce(resp[q][1])
        /\ atMostOnce = Some({req[p].Id[1]})

\* --------------------------------------------- properties: failed requests
\* Request p arrived after a request with its id for a registered method had
\* been answered, on a server with at-most-once where the one dispatched
\* request with that id was answered with an error.
AfterFailure(p) ==
    /\ atMostOnce # None
    /\ Returned(p)
    /\ req[p].Id # None
    /\ prior[p].found
    /\ tally[req[p].Id[1]]["failure"] >= 1

\* The id of a request is marked when the request reaches serveRequest, and
\* an id whose dispatched request failed never yields a success.
MarkedBeforeDecode ==
    /\ \A p \in Procs :
         pc[p] = "serve" /\ atMostOnce # None /\ req[p].Id # None
             => req[p].Id[1] \in atMostOnce[1]
    /\ atMostOnce # None =>
         \A i \in Ids : tally[i]["failure"] >= 1 => tally[i]["success"] = 0

\* C29 as stated: on an at-most-once server the id is marked before the
\* params are decoded and the function is called; when the dispatched
\* request with an id was answered with an error, every later request with
\* that id is answered with AtMostOnce and the id never yields a success.
C29_LaterRequestsRefused ==
    /\ MarkedBeforeDecode
    /\ \A p \in Procs :
         AfterFailure(p) => IsAtMostOnce(resp[p][1]) /\ called[p] = 0

\* C29 amended: ... every later request with that id for a registered
\* method is answered with AtMostOnce ...
C29_LaterDispatchesRefused ==
    /\ MarkedBeforeDecode
    /\ \A p \in Procs :
         AfterFailure(p) /\ Registered(p)
             => IsAtMostOnce(resp[p][1]) /\ called[p] = 0

C29_Witness ==
    \E p \in Procs :
        /\ AfterFailure(p) /\ Registered(p)
        /\ IsAtMostOnce(resp[p][1])
        /\ tally[req[p].Id[1]]["success"] = 0

\* -------------------------------------------- properties: key of the set
\* A request with id i has passed the at-most-once check as the first with
\* that id: it is at serveRequest, or it was answered by its method.
Dispatched(i) ==
    \/ tally[i]["success"] + tally[i]["failure"] >= 1
    \/ \E q \in Procs : pc[q] = "serve" /\ req[q].Id = Some(i)

\* C30: the dedup set is keyed by the id alone.  On an at-most-once server
\* an id is in the set exactly when a request with that id, for whatever
\* registered method and from whatever caller, has passed the check, and a
\* request for a registered method is answered with AtMostOnce at the check
\* exactly when its id is in the set.
C30_KeyedById ==
    /\ [](atMostOnce # None =>
            \A i \in Ids : i \in atMostOnce[1] <=> Dispatched(i))
    /\ [][\A p \in Procs :
            pc[p] = "dedup" /\ pc'[p] # "dedup" /\ atMostOnce # None
            /\ req[p].Id # None
                => ((resp'[p] # None /\ IsAtMostOnce(resp'[p][1]))
                        <=> req[p].Id[1] \in atMostOnce[1])]_vars

C30_Witness ==
    \E p, q \in Procs :
        /\ atMostOnce # None
        /\ req[p].Id = Some(FirstId) /\ req[q].Id = Some(FirstId)
        /\ Registered(p) /\ Registered(q) /\ req[p].Method # req[q].Method
        /\ Returned(p) /\ IsSuccess(resp[p][1])
        /\ Returned(q) /\ IsAtMostOnce(resp[q][1])

\* ------------------------------------------- properties: unknown methods
\* Request p, for a registered method, arrived when the only requests with
\* its id answered so far had been answered with MethodNotFound, and no
\* other request with its id has been dispatched since.
OnlyNotFoundBefore(p) ==
    /\ atMostOnce # None
    /\ Returned(p)
    /\ Registered(p)
    /\ req[p].Id # None
    /\ prior[p].any /\ ~prior[p].found
    /\ Answered(req[p].Id[1]) = 1
    /\ Quiescent(req[p].Id[1])

\* C31: on an at-most-once server the step that answers MethodNotFound
\* leaves the dedup set as it is, and a later request with the same id for
\* a registered method is not refused with AtMostOnce: it is dispatched,
\* and the function runs when its params decode.
C31_NotFoundLeavesSet ==
    /\ [](\A p \in Procs :
            OnlyNotFoundBefore(p) =>
                /\ ~IsAtMostOnce(resp[p][1])
                /\ Decodable(p) => called[p] = 1)
    /\ [][\A p \in Procs :
            pc[p] = "idle" /\ resp'[p] # None /\ ~(Rejected(p))'
            /\ resp'[p][1].Error # None /\ resp'[p][1].Error[1].Code = -32601
                => atMostOnce' = atMostOnce]_vars

C31_Witness ==
    \E p \in Procs :
        /\ OnlyNotFoundBefore(p)
        /\ tally[req[p].Id[1]]["notfound"] >= 1
        /\ called[p] = 1
        /\ IsSuccess(resp[p][1])

\* ------------------------------------------ properties: failed Register
\* C32: a Register call that returns an error has not changed the registry:
\* a call with an error is over without having reached the store, and the
\* registry changes only at the store of a call without error.  Whatever
\* calls failed before, a Register of a valid function for a name that is
\* unbound returns nil and binds the name to that function.
C32_FailedRegisterNoEffect ==
    /\ [](\A p \in Procs :
            /\ reg[p].err # None => pc[p] = "regDone"
            /\ RegisterReturned(p) /\ ~reg[p].wasBound /\ Valid(reg[p].f) =>
                 /\ reg[p].err = None
                 /\ reg[p].name \in DOMAIN methods
                 /\ methods[reg[p].name] = reg[p].rp[1])
    /\ [][methods' # methods =>
            \E q \in Procs : pc[q] = "regStore" /\ reg[q].err = None
                             /\ pc'[q] = "regDone"]_vars

\* Two Register calls have failed and bound nothing; the third, with a
\* valid function for the unbound name, has succeeded.
C32_Witness ==
    \E p \in Procs :
        /\ regCalls = 3
        /\ RegisterReturned(p) /\ ~reg[p].wasBound /\ Valid(reg[p].f)
        /\ reg[p].err = None
        /\ DOMAIN methods = {reg[p].name}

\* --------------------------------------------- properties: lock progress
\* C33: with fair scheduling and a reliable transport, every Lock call
\* that was sent returns, and all N clients finish.
C33_AllClientsFinish ==
    /\ \A g \in Procs : (lpc[g] = "lockSent") ~> (lpc[g] = "cs")
    /\ <>(\A g \in Procs : lpc[g] = "done")

====
